---- MODULE Spec2Model ----
(***************************************************************************)
(* Model of analisis_mercado3_final.py: concentration metrics (market      *)
(* shares, CR4, HHI), the market structure classifier, the partitioner of  *)
(* activities into structure buckets, the equilibrium solvers and the      *)
(* dispatch of main().                                                     *)
(*                                                                         *)
(* Python floats are modelled as exact rationals <<num, den>> in lowest    *)
(* terms with den > 0; a float division by zero is the ZeroDivisionError   *)
(* outcome.  A DataFrame is modelled by what the code reads of it: the     *)
(* number of rows for each (activity, firm) pair and the order in which    *)
(* the activities are first seen.                                          *)
(***************************************************************************)
EXTENDS Integers, Sequences, FiniteSets

\* ------------------------------------------------------------------ bounds
NActs == 2
NFirms == 5
MaxCount == 3
SmallFirms == 2
MaxPrice == 2
MaxSlope == 2
MaxN == 2
MaxFirmCount == 12

Activities == 1..NActs
Firms == 1..NFirms

\* ------------------------------------------------------ float arithmetic
Abs(x) == IF x < 0 THEN -x ELSE x

RECURSIVE GCD(_, _)
GCD(x, y) == IF y = 0 THEN x ELSE GCD(y, x % y)

\* Operator arguments are bound to values through function application, so
\* that a nested expression is evaluated once.
Pair == Int \X Int

Normalized[p \in Pair] ==
    LET s == IF p[2] < 0 THEN -1 ELSE 1
        g == GCD(Abs(p[1]), Abs(p[2]))
    IN <<(s * p[1]) \div g, (s * p[2]) \div g>>

Rat(n, d) == Normalized[<<n, d>>]
Float(i) == <<i, 1>>

Sum2[p \in Pair \X Pair] ==
    Rat(p[1][1] * p[2][2] + p[2][1] * p[1][2], p[1][2] * p[2][2])
Difference2[p \in Pair \X Pair] ==
    Rat(p[1][1] * p[2][2] - p[2][1] * p[1][2], p[1][2] * p[2][2])
Product2[p \in Pair \X Pair] == Rat(p[1][1] * p[2][1], p[1][2] * p[2][2])
Quotient2[p \in Pair \X Pair] == Rat(p[1][1] * p[2][2], p[1][2] * p[2][1])
Greater2[p \in Pair \X Pair] == p[1][1] * p[2][2] > p[2][1] * p[1][2]

RAdd(x, y) == Sum2[<<x, y>>]
RSub(x, y) == Difference2[<<x, y>>]
RMul(x, y) == Product2[<<x, y>>]
RDiv(x, y) == Quotient2[<<x, y>>]
RGt(x, y) == Greater2[<<x, y>>]
RLe(x, y) == ~Greater2[<<x, y>>]
RIsZero(x) == x[1] = 0

RECURSIVE RSum(_)
RSum(s) == IF s = <<>> THEN Float(0) ELSE RAdd(s[1], RSum(Tail(s)))

\* --------------------------------------------------- concentration metrics
\* sorted(market_shares, reverse=True)
RECURSIVE InsertDesc(_, _)
InsertDesc(x, s) ==
    IF s = <<>> THEN <<x>>
    ELSE IF RGt(x, s[1]) THEN <<x>> \o s
    ELSE <<s[1]>> \o InsertDesc(x, Tail(s))

RECURSIVE sorted_reverse(_)
sorted_reverse(s) ==
    IF s = <<>> THEN <<>> ELSE InsertDesc(s[1], sorted_reverse(Tail(s)))

\* s[:k]
Take(s, k) == SubSeq(s, 1, IF Len(s) < k THEN Len(s) ELSE k)

\* df.groupby(firm).size(): one count per firm that has rows, in key order
groupby_size(rows) ==
    LET all == [f \in 1..NFirms |-> rows[f]]
        Present(c) == c > 0
    IN SelectSeq(all, Present)

RECURSIVE SeqSum(_)
SeqSum(s) == IF s = <<>> THEN 0 ELSE s[1] + SeqSum(Tail(s))

\* len(df): the number of rows
len_df(rows) == SeqSum([f \in 1..NFirms |-> rows[f]])

\* mutant: the shares are not sorted before the first four are summed
calculate_market_shares_unsorted(rows) ==
    LET n_firms == groupby_size(rows)
        total_firms == SeqSum(n_firms)
        market_shares == [k \in 1..Len(n_firms) |->
                             RDiv(Float(n_firms[k]), Float(total_firms))]
        cr4 == RSum(Take(market_shares, 4))
    IN [market_shares |-> market_shares, cr4 |-> cr4]

calculate_market_shares(rows) ==
    LET n_firms == groupby_size(rows)
        total_firms == SeqSum(n_firms)
        market_shares == [k \in 1..Len(n_firms) |->
                             RDiv(Float(n_firms[k]), Float(total_firms))]
        cr4 == RSum(Take(sorted_reverse(market_shares), 4))
    IN [market_shares |-> market_shares, cr4 |-> cr4]

\* mutant: the shares are summed without being squared
calculate_hhi_unsquared(market_shares) ==
    RMul(RSum(market_shares), Float(10000))

calculate_hhi(market_shares) ==
    RMul(RSum([k \in 1..Len(market_shares) |->
                  RMul(market_shares[k], market_shares[k])]),
         Float(10000))

\* ------------------------------------------------------------- classifier
Monopolio == "Monopolio"
Oligopolio == "Oligopolio"
CompetenciaMonopolistica == "Competencia Monopolistica"
CompetenciaPerfecta == "Competencia Perfecta"
Categories ==
    {Monopolio, Oligopolio, CompetenciaMonopolistica, CompetenciaPerfecta}

\* mutant: the first rule compares hhi with >= instead of >
determine_market_structure_ge(hhi, cr4, n_firms) ==
    IF RLe(Float(7500), hhi) /\ RGt(cr4, Rat(9, 10)) THEN Monopolio
    ELSE IF RGt(hhi, Float(2500)) /\ RGt(cr4, Rat(6, 10)) THEN Oligopolio
    ELSE IF RGt(hhi, Float(1500)) /\ n_firms > 10 THEN CompetenciaMonopolistica
    ELSE CompetenciaPerfecta

determine_market_structure(hhi, cr4, n_firms) ==
    IF RGt(hhi, Float(7500)) /\ RGt(cr4, Rat(9, 10)) THEN Monopolio
    ELSE IF RGt(hhi, Float(2500)) /\ RGt(cr4, Rat(6, 10)) THEN Oligopolio
    ELSE IF RGt(hhi, Float(1500)) /\ n_firms > 10 THEN CompetenciaMonopolistica
    ELSE CompetenciaPerfecta

\* ------------------------------------------------------------ partitioner
\* mutant: the keys are inserted on first use instead of up front
InitBuckets_lazy == [s \in {} |-> <<>>]

\* market_structures = {"Monopolio": [], "Oligopolio": [], ...}
InitBuckets == [s \in Categories |-> <<>>]

\* mutant: the bucket is assigned instead of appended to
AppendTo_assign(ms, structure, activity) ==
    [ms EXCEPT ![structure] = <<activity>>]

\* market_structures[structure].append(activity)
AppendTo(ms, structure, activity) ==
    [ms EXCEPT ![structure] = Append(@, activity)]

\* the body of the loop of analyze_all_market_structures for one activity:
\* the structure under which the activity (its rows) is filed
structure_of_activity(rows) ==
    LET r == calculate_market_shares(rows)
        hhi == calculate_hhi(r.market_shares)
        n_firms == len_df(rows)
    IN determine_market_structure(hhi, r.cr4, n_firms)

\* ---------------------------------------------------------------- solvers
ZeroDivisionError == [ok |-> FALSE, error |-> "ZeroDivisionError"]

cournot_model(n_firms, a, b, c) ==
    LET den == RMul(b, Float(n_firms + 1))
    IN IF RIsZero(den) THEN ZeroDivisionError
       ELSE LET Q == RDiv(RMul(Float(n_firms), RSub(a, c)), den)
                P == RSub(a, RMul(b, Q))
            IN IF n_firms = 0 THEN ZeroDivisionError
               ELSE LET q_individual == RDiv(Q, Float(n_firms))
                        profit_individual == RMul(RSub(P, c), q_individual)
                    IN [ok |-> TRUE, Q_total |-> Q, P_equilibrio |-> P,
                        q_individual |-> q_individual,
                        beneficio_individual |-> profit_individual]

bertrand_model(c) ==
    [ok |-> TRUE, P_equilibrio |-> c, beneficio_individual |-> Float(0)]

stackelberg_model(a, b, c) ==
    LET den == RMul(Float(2), b)
    IN IF RIsZero(den) THEN ZeroDivisionError
       ELSE LET q_leader == RDiv(RSub(a, c), den)
                q_follower == RDiv(RSub(RSub(a, c), RMul(b, q_leader)), den)
                Q == RAdd(q_leader, q_follower)
                P == RSub(a, RMul(b, Q))
            IN [ok |-> TRUE, q_lider |-> q_leader, q_seguidor |-> q_follower,
                Q_total |-> Q, P_equilibrio |-> P,
                beneficio_lider |-> RMul(RSub(P, c), q_leader),
                beneficio_seguidor |-> RMul(RSub(P, c), q_follower)]

\* mutant: the cartel produces the Cournot quantity
cartel_model_cournot(n_firms, a, b, c) ==
    LET den == RMul(b, Float(n_firms + 1))
    IN IF RIsZero(den) THEN ZeroDivisionError
       ELSE LET Q == RDiv(RMul(Float(n_firms), RSub(a, c)), den)
                P == RSub(a, RMul(b, Q))
            IN IF n_firms = 0 THEN ZeroDivisionError
               ELSE LET q_individual == RDiv(Q, Float(n_firms))
                        profit_total == RMul(RSub(P, c), Q)
                        profit_individual == RDiv(profit_total, Float(n_firms))
                    IN [ok |-> TRUE, Q_total |-> Q, P_equilibrio |-> P,
                        q_individual |-> q_individual,
                        beneficio_total |-> profit_total,
                        beneficio_individual |-> profit_individual]

cartel_model(n_firms, a, b, c) ==
    LET den == RMul(Float(2), b)
    IN IF RIsZero(den) THEN ZeroDivisionError
       ELSE LET Q == RDiv(RSub(a, c), den)
                P == RSub(a, RMul(b, Q))
            IN IF n_firms = 0 THEN ZeroDivisionError
               ELSE LET q_individual == RDiv(Q, Float(n_firms))
                        profit_total == RMul(RSub(P, c), Q)
                        profit_individual == RDiv(profit_total, Float(n_firms))
                    IN [ok |-> TRUE, Q_total |-> Q, P_equilibrio |-> P,
                        q_individual |-> q_individual,
                        beneficio_total |-> profit_total,
                        beneficio_individual |-> profit_individual]

\* mutant: the quantity is computed with the sign of a - P reversed
perfect_competition_model_sign(a, b, c) ==
    LET P == c
    IN IF RIsZero(b) THEN ZeroDivisionError
       ELSE [ok |-> TRUE, P_equilibrio |-> P, Q_total |-> RDiv(RSub(P, a), b)]

perfect_competition_model(a, b, c) ==
    LET P == c
    IN IF RIsZero(b) THEN ZeroDivisionError
       ELSE [ok |-> TRUE, P_equilibrio |-> P, Q_total |-> RDiv(RSub(a, P), b)]

monopolistic_competition_model(n_firms, a, b, c, d) ==
    LET P == RDiv(RAdd(a, c), Float(2))
        den == RMul(b, RAdd(Float(1), d))
    IN IF RIsZero(den) THEN ZeroDivisionError
       ELSE LET q == RDiv(RSub(a, P), den)
            IN [ok |-> TRUE, P_equilibrio |-> P, q_individual |-> q,
                Q_total |-> RMul(Float(n_firms), q)]

monopoly_model(a, b, c) ==
    LET den == RMul(Float(2), b)
    IN IF RIsZero(den) THEN ZeroDivisionError
       ELSE LET Q == RDiv(RSub(a, c), den)
                P == RSub(a, RMul(b, Q))
            IN [ok |-> TRUE, Q_total |-> Q, P_equilibrio |-> P,
                beneficio |-> RMul(RSub(P, c), Q)]

Solvers == {"cournot", "bertrand", "stackelberg", "cartel",
            "perfect_competition", "monopolistic_competition", "monopoly"}

call_solver(name, n, a, b, c, d) ==
    CASE name = "cournot" -> cournot_model(n, a, b, c)
      [] name = "bertrand" -> bertrand_model(c)
      [] name = "stackelberg" -> stackelberg_model(a, b, c)
      [] name = "cartel" -> cartel_model(n, a, b, c)
      [] name = "perfect_competition" -> perfect_competition_model(a, b, c)
      [] name = "monopolistic_competition" ->
             monopolistic_competition_model(n, a, b, c, d)
      [] name = "monopoly" -> monopoly_model(a, b, c)

\* ------------------------------------------------------- dispatch of main
\* mutant: the branches of Monopolio and Competencia Perfecta are swapped
solvers_for_swapped(selected) ==
    IF selected = Oligopolio
        THEN <<"cournot", "bertrand", "stackelberg", "cartel">>
    ELSE IF selected = CompetenciaPerfecta THEN <<"monopoly">>
    ELSE IF selected = CompetenciaMonopolistica
        THEN <<"monopolistic_competition">>
    ELSE IF selected = Monopolio THEN <<"perfect_competition">>
    ELSE <<>>

\* the solvers the if/elif chain of main calls for the selected structure,
\* in call order
solvers_for(selected) ==
    IF selected = Oligopolio
        THEN <<"cournot", "bertrand", "stackelberg", "cartel">>
    ELSE IF selected = CompetenciaPerfecta THEN <<"perfect_competition">>
    ELSE IF selected = CompetenciaMonopolistica
        THEN <<"monopolistic_competition">>
    ELSE IF selected = Monopolio THEN <<"monopoly">>
    ELSE <<>>

\* the calls made until the first one raises: an exception ends the run
RECURSIVE run_calls(_, _, _, _, _, _)
run_calls(names, n, a, b, c, d) ==
    IF names = <<>> THEN <<>>
    ELSE IF call_solver(names[1], n, a, b, c, d).ok
        THEN <<[solver |-> names[1], ok |-> TRUE]>>
                 \o run_calls(Tail(names), n, a, b, c, d)
    ELSE <<[solver |-> names[1], ok |-> FALSE]>>

\* ------------------------------------------------------------------ state
VARIABLES
    df,                 \* main: rows per activity and firm
    unique_activities,  \* main: df[activity column].unique(), first seen first
    market_structures,  \* analyze_all_market_structures: the four buckets
    i,                  \* number of activities the loop has processed
    pc,                 \* position in main
    selected_structure, selected_activity, n_firms,
    slope,              \* the demand slope b entered by the user
    invoked,            \* solvers called by the dispatch, in call order
    outcome,            \* "" or the exception that ended the run
    m_rows, m_pc, m_out, m_hhi,           \* a direct call of the metrics
    k_hhi, k_cr4, k_n, k_result,          \* a direct call of the classifier
    s_n, s_a, s_b, s_c, s_d, s_results    \* direct calls of the solvers

mainVars == <<df, unique_activities, market_structures, i, pc,
              selected_structure, selected_activity, n_firms, slope,
              invoked, outcome>>
metricVars == <<m_rows, m_pc, m_out, m_hhi>>
classVars == <<k_hhi, k_cr4, k_n, k_result>>
solverVars == <<s_n, s_a, s_b, s_c, s_d, s_results>>
vars == <<mainVars, metricVars, classVars, solverVars>>

NoRows == [f \in Firms |-> 0]
NotCalled == [ok |-> FALSE, error |-> "not called"]

\* ----------------------------------------------------------------- inputs
Prices == {Float(p) : p \in 0..MaxPrice}
Slopes == {Float(q) : q \in 0..MaxSlope}
Sliders == {Float(0), Rat(1, 2), Float(1)}
\* the values entered in main: a below, equal to and above c; b below, equal
\* to and above zero
MainPrices == {Float(0), Float(MaxPrice)}
MainSlopes == {Float(-1), Float(0), Float(MaxSlope)}

\* one market of up to NFirms firms with up to MaxCount establishments each
BigDatasets ==
    {[a \in Activities |-> IF a = 1 THEN t ELSE NoRows] :
        t \in [Firms -> 0..MaxCount]}

\* several markets of up to SmallFirms single-establishment firms
SmallDatasets ==
    {[a \in Activities |-> [f \in Firms |-> IF f \in S[a] THEN 1 ELSE 0]] :
        S \in [Activities -> SUBSET (1..SmallFirms)]}

DistinctActivities(d) == {a \in Activities : len_df(d[a]) > 0}

\* the orders in which the rows of d can first show its activities
FirstSeenOrders(d) ==
    LET present == DistinctActivities(d)
    IN {o \in [1..Cardinality(present) -> present] :
           \A x, y \in DOMAIN o : x # y => o[x] # o[y]}

MainIdle ==
    /\ df = [a \in Activities |-> NoRows]
    /\ unique_activities = <<>>
    /\ market_structures = InitBuckets
    /\ i = 0
    /\ pc = "idle"
    /\ selected_structure = ""
    /\ selected_activity = 0
    /\ n_firms = 0
    /\ slope = Float(1)
    /\ invoked = <<>>
    /\ outcome = ""

MetricIdle ==
    /\ m_rows = NoRows
    /\ m_pc = "idle"
    /\ m_out = [market_shares |-> <<>>, cr4 |-> Float(0)]
    /\ m_hhi = Float(0)

ClassIdle ==
    /\ k_hhi = Float(0)
    /\ k_cr4 = Float(0)
    /\ k_n = 0
    /\ k_result = ""

SolverIdle ==
    /\ s_n = 1
    /\ s_a = Float(0)
    /\ s_b = Float(1)
    /\ s_c = Float(0)
    /\ s_d = Float(0)
    /\ s_results = [s \in Solvers |-> NotCalled]

\* ------------------------------------------------------------------- main
\* main after market_structures was created by the partitioner
Init ==
    /\ df \in BigDatasets \cup SmallDatasets
    /\ unique_activities \in FirstSeenOrders(df)
    /\ market_structures = InitBuckets
    /\ i = 0
    /\ pc = "loop"
    /\ selected_structure = ""
    /\ selected_activity = 0
    /\ n_firms = 0
    /\ slope = Float(1)
    /\ invoked = <<>>
    /\ outcome = ""
    /\ MetricIdle /\ ClassIdle /\ SolverIdle

\* one iteration of the loop of analyze_all_market_structures
LoopIteration ==
    /\ pc = "loop"
    /\ i < Len(unique_activities)
    /\ LET activity == unique_activities[i + 1]
           df_activity == df[activity]
           structure == structure_of_activity(df_activity)
       IN market_structures' = AppendTo(market_structures, structure, activity)
    /\ i' = i + 1
    /\ UNCHANGED <<df, unique_activities, pc, selected_structure,
                   selected_activity, n_firms, slope, invoked, outcome>>
    /\ UNCHANGED <<metricVars, classVars, solverVars>>

\* return market_structures
LoopReturn ==
    /\ pc = "loop"
    /\ i = Len(unique_activities)
    /\ pc' = "select_structure"
    /\ UNCHANGED <<df, unique_activities, market_structures, i,
                   selected_structure, selected_activity, n_firms, slope,
                   invoked, outcome>>
    /\ UNCHANGED <<metricVars, classVars, solverVars>>

available_structures(ms) == {s \in Categories : ms[s] # <<>>}

\* the first selectbox; with no option it yields None and the lookup
\* market_structures[None] of the second selectbox raises KeyError
SelectStructure ==
    /\ pc = "select_structure"
    /\ IF available_structures(market_structures) = {}
         THEN /\ pc' = "error"
              /\ outcome' = "KeyError"
              /\ UNCHANGED selected_structure
         ELSE /\ \E s \in available_structures(market_structures) :
                     selected_structure' = s
              /\ pc' = "select_activity"
              /\ UNCHANGED outcome
    /\ UNCHANGED <<df, unique_activities, market_structures, i,
                   selected_activity, n_firms, slope, invoked>>
    /\ UNCHANGED <<metricVars, classVars, solverVars>>

\* the second selectbox and the metrics of the selected activity
SelectActivity ==
    /\ pc = "select_activity"
    /\ \E k \in DOMAIN market_structures[selected_structure] :
          /\ selected_activity' = market_structures[selected_structure][k]
          /\ n_firms' = len_df(df[selected_activity'])
    /\ pc' = "solve"
    /\ UNCHANGED <<df, unique_activities, market_structures, i,
                   selected_structure, slope, invoked, outcome>>
    /\ UNCHANGED <<metricVars, classVars, solverVars>>

\* the parameter inputs and the if/elif chain over selected_structure; the
\* slider d exists only in the branch of Competencia Monopolistica
Solve ==
    /\ pc = "solve"
    /\ \E a \in MainPrices, b \in MainSlopes, c \in MainPrices :
       \E d \in IF selected_structure = CompetenciaMonopolistica
                   THEN Sliders ELSE {Float(0)} :
       \E calls \in {run_calls(solvers_for(selected_structure),
                               n_firms, a, b, c, d)} :
          LET raised == calls # <<>> /\ ~calls[Len(calls)].ok
          IN /\ invoked' = [k \in DOMAIN calls |-> calls[k].solver]
             /\ slope' = b
             /\ outcome' = IF raised THEN "ZeroDivisionError" ELSE ""
             /\ pc' = IF raised THEN "error" ELSE "done"
    /\ UNCHANGED <<df, unique_activities, market_structures, i,
                   selected_structure, selected_activity, n_firms>>
    /\ UNCHANGED <<metricVars, classVars, solverVars>>

Next ==
    \/ LoopIteration
    \/ LoopReturn
    \/ SelectStructure
    \/ SelectActivity
    \/ Solve

Spec == Init /\ [][Next]_vars

\* --------------------------------------------- direct call of the metrics
InitMetrics ==
    /\ m_rows \in [Firms -> 0..MaxCount]
    /\ m_pc = "start"
    /\ m_out = [market_shares |-> <<>>, cr4 |-> Float(0)]
    /\ m_hhi = Float(0)
    /\ MainIdle /\ ClassIdle /\ SolverIdle

\* market_shares, cr4 = calculate_market_shares(df)
CallMarketShares ==
    /\ m_pc = "start"
    /\ m_out' = calculate_market_shares(m_rows)
    /\ m_pc' = "shares"
    /\ UNCHANGED <<m_rows, m_hhi, mainVars, classVars, solverVars>>

\* hhi = calculate_hhi(market_shares)
CallHHI ==
    /\ m_pc = "shares"
    /\ m_hhi' = calculate_hhi(m_out.market_shares)
    /\ m_pc' = "hhi"
    /\ UNCHANGED <<m_rows, m_out, mainVars, classVars, solverVars>>

NextMetrics == CallMarketShares \/ CallHHI

SpecMetrics == InitMetrics /\ [][NextMetrics]_vars

\* ------------------------------------------ direct call of the classifier
HhiValues == {Float(500 * k + e) : k \in 0..20, e \in {0, 1}}
Cr4Values == {Rat(k, 20) : k \in 0..20} \cup {Rat(61, 100), Rat(91, 100)}

InitClassify ==
    /\ k_hhi \in HhiValues
    /\ k_cr4 \in Cr4Values
    /\ k_n \in 0..MaxFirmCount
    /\ k_result = ""
    /\ MainIdle /\ MetricIdle /\ SolverIdle

Classify ==
    /\ k_result = ""
    /\ k_result' = determine_market_structure(k_hhi, k_cr4, k_n)
    /\ UNCHANGED <<k_hhi, k_cr4, k_n, mainVars, metricVars, solverVars>>

NextClassify == Classify

SpecClassify == InitClassify /\ [][NextClassify]_vars

\* --------------------------------------------- direct calls of the solvers
\* The parameters are those main can pass: n_firms is the number of rows of
\* an activity (at least 1), d a value of the slider [0, 1], and a, b, c
\* numbers entered by the user, b = 0 included.
InitSolvers ==
    /\ s_n \in 1..MaxN
    /\ s_a \in Prices
    /\ s_b \in Slopes
    /\ s_c \in Prices
    /\ s_d \in Sliders
    /\ s_results = [s \in Solvers |-> NotCalled]
    /\ MainIdle /\ MetricIdle /\ ClassIdle

CallCournot ==
    /\ s_results["cournot"] = NotCalled
    /\ s_results' = [s_results EXCEPT !["cournot"] = cournot_model(s_n, s_a, s_b, s_c)]
    /\ UNCHANGED <<s_n, s_a, s_b, s_c, s_d, mainVars, metricVars, classVars>>

CallBertrand ==
    /\ s_results["bertrand"] = NotCalled
    /\ s_results' = [s_results EXCEPT !["bertrand"] = bertrand_model(s_c)]
    /\ UNCHANGED <<s_n, s_a, s_b, s_c, s_d, mainVars, metricVars, classVars>>

CallStackelberg ==
    /\ s_results["stackelberg"] = NotCalled
    /\ s_results' = [s_results EXCEPT !["stackelberg"] = stackelberg_model(s_a, s_b, s_c)]
    /\ UNCHANGED <<s_n, s_a, s_b, s_c, s_d, mainVars, metricVars, classVars>>

CallCartel ==
    /\ s_results["cartel"] = NotCalled
    /\ s_results' = [s_results EXCEPT !["cartel"] = cartel_model(s_n, s_a, s_b, s_c)]
    /\ UNCHANGED <<s_n, s_a, s_b, s_c, s_d, mainVars, metricVars, classVars>>

CallPerfectCompetition ==
    /\ s_results["perfect_competition"] = NotCalled
    /\ s_results' = [s_results EXCEPT !["perfect_competition"] = perfect_competition_model(s_a, s_b, s_c)]
    /\ UNCHANGED <<s_n, s_a, s_b, s_c, s_d, mainVars, metricVars, classVars>>

CallMonopolisticCompetition ==
    /\ s_results["monopolistic_competition"] = NotCalled
    /\ s_results' = [s_results EXCEPT !["monopolistic_competition"] = monopolistic_competition_model(s_n, s_a, s_b, s_c, s_d)]
    /\ UNCHANGED <<s_n, s_a, s_b, s_c, s_d, mainVars, metricVars, classVars>>

CallMonopoly ==
    /\ s_results["monopoly"] = NotCalled
    /\ s_results' = [s_results EXCEPT !["monopoly"] = monopoly_model(s_a, s_b, s_c)]
    /\ UNCHANGED <<s_n, s_a, s_b, s_c, s_d, mainVars, metricVars, classVars>>

NextSolvers ==
    \/ CallCournot
    \/ CallBertrand
    \/ CallStackelberg
    \/ CallCartel
    \/ CallPerfectCompetition
    \/ CallMonopolisticCompetition
    \/ CallMonopoly

SpecSolvers == InitSolvers /\ [][NextSolvers]_vars

\* ================================================================ claims
\* x > num / den, by cross multiplication
Above(x, num, den) == x[1] * den > num * x[2]

\* C1: the classifier is total and applies its rules in order with strict
\* comparisons: Monopolio iff hhi > 7500 and cr4 > 0.9; otherwise Oligopolio
\* iff hhi > 2500 and cr4 > 0.6; otherwise Competencia Monopolistica iff
\* hhi > 1500 and n_firms > 10; otherwise Competencia Perfecta.  A value
\* exactly on a threshold does not satisfy the rule of that threshold.
C1_OrderedStrictRules ==
    k_result # "" =>
        LET m == Above(k_hhi, 7500, 1) /\ Above(k_cr4, 9, 10)
            o == ~m /\ Above(k_hhi, 2500, 1) /\ Above(k_cr4, 6, 10)
            mc == ~m /\ ~o /\ Above(k_hhi, 1500, 1) /\ k_n > 10
        IN /\ k_result \in Categories
           /\ (k_result = Monopolio) <=> m
           /\ (k_result = Oligopolio) <=> o
           /\ (k_result = CompetenciaMonopolistica) <=> mc
           /\ (k_result = CompetenciaPerfecta) <=> (~m /\ ~o /\ ~mc)
           /\ (k_hhi = <<7500, 1>> \/ k_cr4 = <<9, 10>>)
                  => k_result # Monopolio
           /\ (k_hhi = <<2500, 1>> \/ k_cr4 = <<3, 5>>)
                  => k_result # Oligopolio
           /\ (k_hhi = <<1500, 1>> \/ k_n = 10)
                  => k_result # CompetenciaMonopolistica

\* hhi exactly 7500 with cr4 = 1 is classified one tier down
C1_Witness ==
    /\ k_result = Oligopolio
    /\ k_hhi = <<7500, 1>>
    /\ k_cr4 = <<1, 1>>

\* the places <<bucket, index>> of the mapping
Slots ==
    UNION {{<<s, k>> : k \in DOMAIN market_structures[s]} :
              s \in DOMAIN market_structures}
Processed == {unique_activities[k] : k \in 1..i}

\* C2: after each iteration every activity processed so far is in exactly
\* one bucket exactly once, no bucket holds anything else, the bucket
\* lengths sum to the number of activities processed; when the partitioner
\* has returned the activities processed are the distinct activities of df.
C2_BucketsPartitionActivities ==
    /\ \A act \in Processed :
          Cardinality({p \in Slots :
                          market_structures[p[1]][p[2]] = act}) = 1
    /\ \A p \in Slots : market_structures[p[1]][p[2]] \in Processed
    /\ Cardinality(Slots) = Cardinality(Processed)
    /\ Cardinality(Processed) = i
    /\ (pc \notin {"loop", "idle"} => Processed = DistinctActivities(df))

\* two activities were filed under two different structures
C2_Witness ==
    /\ pc = "select_structure"
    /\ Len(market_structures[Monopolio]) = 1
    /\ Len(market_structures[Oligopolio]) = 1

\* C4: the mapping has exactly the four category keys at every point, each
\* mapped to a sequence of activities; when the partitioner has returned, a
\* category under which no activity of df is classified maps to the empty
\* sequence.
C4_FourKeysAlways ==
    /\ DOMAIN market_structures = Categories
    /\ \A s \in Categories : market_structures[s] \in Seq(Activities)
    /\ pc = "select_structure" =>
          \A s \in Categories :
              (\A a \in DistinctActivities(df) :
                  structure_of_activity(df[a]) # s)
                  => market_structures[s] = <<>>

\* the partitioner returned for a df without rows: four keys, all empty
C4_Witness ==
    /\ pc = "select_structure"
    /\ unique_activities = <<>>
    /\ \A s \in Categories : market_structures[s] = <<>>

\* the category under which the partitioner filed the activity
AssignedCategory(act) ==
    CHOOSE s \in Categories :
        \E k \in DOMAIN market_structures[s] : market_structures[s][k] = act

OligopolySolvers == <<"cournot", "bertrand", "stackelberg", "cartel">>

\* C9 as stated: the solvers invoked in a run are those of the category
\* assigned to the selected activity: all four oligopoly solvers for
\* Oligopolio, exactly the one solver of the category for the other three.
C9_AllFourForOligopoly ==
    (pc \in {"done", "error"} /\ outcome # "KeyError") =>
        LET cat == AssignedCategory(selected_activity)
        IN /\ cat = Oligopolio => invoked = OligopolySolvers
           /\ cat = Monopolio => invoked = <<"monopoly">>
           /\ cat = CompetenciaMonopolistica
                  => invoked = <<"monopolistic_competition">>
           /\ cat = CompetenciaPerfecta => invoked = <<"perfect_competition">>

\* C9 amended: as C9, but for Oligopolio all four solvers are invoked when
\* the slope b is not zero; with b = 0 the first call, Cournot, ends the
\* run with a division by zero and is the only solver invoked.
C9_DispatchByAssignedCategory ==
    (pc \in {"done", "error"} /\ outcome # "KeyError") =>
        LET cat == AssignedCategory(selected_activity)
        IN /\ cat = Oligopolio =>
                  invoked = IF slope[1] = 0 THEN <<"cournot">>
                            ELSE OligopolySolvers
           /\ cat = Monopolio => invoked = <<"monopoly">>
           /\ cat = CompetenciaMonopolistica
                  => invoked = <<"monopolistic_competition">>
           /\ cat = CompetenciaPerfecta => invoked = <<"perfect_competition">>

\* a run over an activity filed under Oligopolio invoked all four solvers
C9_Witness ==
    /\ pc = "done"
    /\ AssignedCategory(selected_activity) = Oligopolio
    /\ invoked = OligopolySolvers

\* C10: every activity is filed under
\* determine_market_structure(hhi, cr4, firm_count) with firm_count the
\* number of distinct firms of the activity (the length of its share set).
C10_FiledByDistinctFirmCount ==
    \A k \in 1..i :
        LET act == unique_activities[k]
            r == calculate_market_shares(df[act])
            hhi == calculate_hhi(r.market_shares)
            firm_count == Len(r.market_shares)
            cat == determine_market_structure(hhi, r.cr4, firm_count)
        IN \E j \in DOMAIN market_structures[cat] :
               market_structures[cat][j] = act

\* C3: calculate_market_shares on a collection without rows ends in
\* EmptyInputError and never returns the pair (empty share list, 0).
C3_EmptyInputRaises ==
    (m_pc # "idle" /\ m_pc # "start" /\ len_df(m_rows) = 0)
        => m_pc = "EmptyInputError"

DistinctFirms(rows) == {f \in Firms : rows[f] > 0}

\* C5: for a collection with rows, each share is (rows of the firm) /
\* (total rows), one share per distinct firm; hhi is greater than 0 and at
\* most 10000, and equals 10000 iff there is exactly one distinct firm.
C5_HHIRange ==
    (m_pc = "hhi" /\ len_df(m_rows) > 0) =>
        LET firms == DistinctFirms(m_rows)
            shares == m_out.market_shares
        IN /\ Len(shares) = Cardinality(firms)
           /\ \A f \in firms :
                 LET k == Cardinality({g \in firms : g <= f})
                 IN shares[k][1] * len_df(m_rows) = m_rows[f] * shares[k][2]
           /\ m_hhi[1] > 0
           /\ m_hhi[1] <= 10000 * m_hhi[2]
           /\ (m_hhi = <<10000, 1>>) <=> (Cardinality(firms) = 1)

\* one firm with several establishments: hhi is 10000
C5_Witness ==
    /\ m_pc = "hhi"
    /\ Cardinality(DistinctFirms(m_rows)) = 1
    /\ len_df(m_rows) = MaxCount
    /\ m_hhi = <<10000, 1>>

RECURSIVE IndexSum(_, _)
IndexSum(S, shares) ==
    IF S = {} THEN <<0, 1>>
    ELSE LET k == CHOOSE x \in S : TRUE
         IN RAdd(shares[k], IndexSum(S \ {k}, shares))

Called == {name \in Solvers : s_results[name] # NotCalled}

\* the quantities of a result record
Quantities(name, r) ==
    CASE name = "cournot" -> {r.Q_total, r.q_individual}
      [] name = "bertrand" -> {}
      [] name = "stackelberg" -> {r.Q_total, r.q_lider, r.q_seguidor}
      [] name = "cartel" -> {r.Q_total, r.q_individual}
      [] name = "perfect_competition" -> {r.Q_total}
      [] name = "monopolistic_competition" -> {r.Q_total, r.q_individual}
      [] name = "monopoly" -> {r.Q_total}

\* C7 as stated: every solver returns its result record for every
\* parameter set and never ends in an error; a set with a <= c yields
\* non-positive quantities.
C7_SolversTotal ==
    \A name \in Called :
        /\ s_results[name].ok
        /\ RLe(s_a, s_c) =>
              \A q \in Quantities(name, s_results[name]) : q[1] <= 0

ParametersInDomain == s_b[1] > 0 /\ s_n > 0 /\ s_d[1] >= 0

\* C7 amended: every solver returns its result record and never ends in an
\* error for every parameter set with b > 0, n > 0 and d >= 0, and such a
\* set with a <= c yields non-positive quantities; with b = 0 every solver
\* but Bertrand ends in ZeroDivisionError.
C7_SolversTotalOnPositiveSlope ==
    \A name \in Called :
        /\ ParametersInDomain =>
              /\ s_results[name].ok
              /\ RLe(s_a, s_c) =>
                    \A q \in Quantities(name, s_results[name]) : q[1] <= 0
        /\ (s_b[1] = 0 /\ name # "bertrand")
              => s_results[name] = ZeroDivisionError

\* a degenerate set (a < c) with b > 0 gave a negative total quantity
C7_Witness ==
    /\ "perfect_competition" \in Called
    /\ ParametersInDomain
    /\ Above(s_c, s_a[1], s_a[2])
    /\ s_results["perfect_competition"].ok
    /\ s_results["perfect_competition"].Q_total[1] < 0

====
